---- MODULE Spec2Model ----
(***************************************************************************)
(* TestBroker (src/app.py): a Flask backend over a PostgreSQL ledger       *)
(* (accounts, positions, transactions, portfolio_history) and a quote      *)
(* gateway.  Each request handler is modelled statement by statement: a    *)
(* SELECT reads the committed store (READ COMMITTED, the psycopg2          *)
(* default), an UPDATE/INSERT/DELETE is buffered in the connection's       *)
(* transaction and becomes visible at db.commit(); a handler that returns  *)
(* or raises without committing loses its buffer when close_connection     *)
(* closes the connection.  UPDATE accounts takes the row lock of the       *)
(* account until the transaction ends.                                     *)
(*                                                                         *)
(* Numbers are Python floats.  The model keeps them on an integer grid:    *)
(* quantities in units of the closure tolerance (1e-7 share), and a        *)
(* quotient is rounded to the grid as a float quotient is rounded to the   *)
(* nearest double.  float() also yields NaN (for "nan" or a JSON NaN);     *)
(* NaN is one extra value that every operation propagates and every        *)
(* comparison answers with false.                                          *)
(***************************************************************************)
EXTENDS Integers, Sequences, FiniteSets, TLC

VARIABLES cash, positions, transactions, history, nextId, lock, req,
          committed, started, pf, rec

vars == <<cash, positions, transactions, history, nextId, lock, req,
          committed, started, pf, rec>>

store == <<cash, positions, transactions, history>>

(* ---------------------------- bounds ----------------------------------- *)
MaxOrders == 3
StartCash == 7
MaxViews == 1
MaxRuns == 1

(* ---------------------------- floats ----------------------------------- *)
(* float('nan'), line 88: a value outside the grid *)
NaN == -1000000

(* 0.0000001, line 160: one quantity unit of the grid *)
Epsilon == 1

IsNaN(x) == x = NaN

FAdd(a, b) == IF IsNaN(a) \/ IsNaN(b) THEN NaN ELSE a + b

FSub(a, b) == IF IsNaN(a) \/ IsNaN(b) THEN NaN ELSE a - b

FMul(a, b) == IF IsNaN(a) \/ IsNaN(b) THEN NaN ELSE a * b

(* a / b for b > 0, rounded to the nearest grid value *)
FDiv(a, b) ==
    IF IsNaN(a) \/ IsNaN(b) THEN NaN
    ELSE IF a >= 0 THEN (2 * a + b) \div (2 * b)
    ELSE 0 - ((2 * (0 - a) + b) \div (2 * b))

FLt(a, b) == ~IsNaN(a) /\ ~IsNaN(b) /\ a < b

FLe(a, b) == ~IsNaN(a) /\ ~IsNaN(b) /\ a <= b

FGt(a, b) == FLt(b, a)

FGe(a, b) == FLe(b, a)

(* ---------------------------- domains ---------------------------------- *)
Procs == {1, 2}

Accounts == {1, 2}

UserIds == Accounts \cup {3}

Tickers == {"AAA", "BTC-USD"}

Prices == {1, 2}

QuantityInputs == {0, 1, 3, NaN}

NoPrice == 0

NoRow == [position_id |-> 0, user_id |-> 0, ticker_symbol |-> "",
          quantity |-> 0, average_buy_price |-> 0]

Idle == [pc |-> "idle", op |-> "", user_id |-> 0, ticker |-> "",
         quantity |-> 0, price |-> NoPrice, new_cash_balance |-> 0,
         position |-> NoRow, pending |-> <<>>, quoteCalls |-> 0,
         resp |-> ""]

(* ---------------------------- quote gateway ---------------------------- *)
NoQuote == [price |-> NoPrice, change_pct |-> 0, name |-> ""]

DisplayName(t) == IF t = "AAA" THEN "Alpha Inc" ELSE "Bitcoin USD"

(* get_ticker_info: None on any failure, else price, change and name *)
get_ticker_info(t) ==
    {NoQuote} \cup {[price |-> pr, change_pct |-> 1, name |-> DisplayName(t)] :
                    pr \in Prices}

(* ---------------------------- ledger store ----------------------------- *)
Op(k, u, t, id, q, v, ty) ==
    [k |-> k, user_id |-> u, ticker_symbol |-> t, position_id |-> id,
     quantity |-> q, value |-> v, transaction_type |-> ty]

UpdateCash(u, v) == Op("update_cash", u, "", 0, 0, v, "")

InsertPosition(u, t, q, avg) == Op("insert_position", u, t, 0, q, avg, "")

UpdatePosition(id, q, avg) == Op("update_position", 0, "", id, q, avg, "")

UpdateQuantity(id, q) == Op("update_quantity", 0, "", id, q, 0, "")

DeletePosition(id) == Op("delete_position", 0, "", id, 0, 0, "")

InsertTransaction(u, t, ty, q, pr) == Op("insert_transaction", u, t, 0, q, pr, ty)

InsertHistory(u, v) == Op("insert_history", u, "", 0, 0, v, "")

MapRows(rows, F(_)) == [i \in 1..Len(rows) |-> F(rows[i])]

(* one buffered statement applied to the committed tables *)
ApplyOp(S, o) ==
    CASE o.k = "update_cash" ->
           [S EXCEPT !.cash = IF o.user_id \in DOMAIN S.cash
                              THEN [S.cash EXCEPT ![o.user_id] = o.value]
                              ELSE S.cash]
      [] o.k = "insert_position" ->
           [S EXCEPT !.positions = Append(S.positions,
                        [position_id |-> S.nextId, user_id |-> o.user_id,
                         ticker_symbol |-> o.ticker_symbol,
                         quantity |-> o.quantity,
                         average_buy_price |-> o.value]),
                     !.nextId = S.nextId + 1]
      [] o.k = "update_position" ->
           [S EXCEPT !.positions = MapRows(S.positions,
                        LAMBDA r : IF r.position_id = o.position_id
                                   THEN [r EXCEPT !.quantity = o.quantity,
                                                  !.average_buy_price = o.value]
                                   ELSE r)]
      [] o.k = "update_quantity" ->
           [S EXCEPT !.positions = MapRows(S.positions,
                        LAMBDA r : IF r.position_id = o.position_id
                                   THEN [r EXCEPT !.quantity = o.quantity]
                                   ELSE r)]
      [] o.k = "delete_position" ->
           [S EXCEPT !.positions = SelectSeq(S.positions,
                        LAMBDA r : r.position_id # o.position_id)]
      [] o.k = "insert_transaction" ->
           [S EXCEPT !.transactions = Append(S.transactions,
                        [user_id |-> o.user_id,
                         ticker_symbol |-> o.ticker_symbol,
                         transaction_type |-> o.transaction_type,
                         quantity |-> o.quantity,
                         price_per_share |-> o.value])]
      [] o.k = "insert_history" ->
           [S EXCEPT !.history = Append(S.history,
                        [user_id |-> o.user_id, value |-> o.value])]

RECURSIVE ApplyAll(_, _)
ApplyAll(S, ops) ==
    IF ops = <<>> THEN S ELSE ApplyAll(ApplyOp(S, Head(ops)), Tail(ops))

Tables == [cash |-> cash, positions |-> positions,
           transactions |-> transactions, history |-> history,
           nextId |-> nextId]

(* db.commit(): every buffered statement becomes visible at once *)
Commit(ops) ==
    LET S == ApplyAll(Tables, ops)
    IN  /\ cash' = S.cash
        /\ positions' = S.positions
        /\ transactions' = S.transactions
        /\ history' = S.history
        /\ nextId' = S.nextId

(* SELECT * FROM positions WHERE user_id = u AND ticker_symbol = t; fetchone *)
PositionsOf(u, t) ==
    SelectSeq(positions, LAMBDA r : r.user_id = u /\ r.ticker_symbol = t)

FetchPosition(u, t) ==
    IF PositionsOf(u, t) = <<>> THEN NoRow ELSE Head(PositionsOf(u, t))

(* SELECT ... FROM positions WHERE user_id = u; fetchall *)
ListPositions(u) == SelectSeq(positions, LAMBDA r : r.user_id = u)

(* the row lock UPDATE accounts takes, held until the transaction ends *)
LockFree(p, u) == u \in Accounts => lock[u] \in {0, p}

Locked(p, u) == [a \in Accounts |-> IF a = u THEN p ELSE lock[a]]

Released(p) == [a \in Accounts |-> IF lock[a] = p THEN 0 ELSE lock[a]]

(* a handler returns (or raises) without db.commit(): close_connection    *)
(* closes the connection and the buffered statements are lost             *)
Respond(r, text) ==
    [Idle EXCEPT !.pc = "done", !.op = r.op, !.user_id = r.user_id,
                 !.ticker = r.ticker, !.quantity = r.quantity,
                 !.resp = text, !.quoteCalls = r.quoteCalls]

Buffered(r, o) == [r EXCEPT !.pending = Append(r.pending, o)]

OrderFrame == UNCHANGED <<pf, rec>>

PfIdle == [pc |-> "idle", user_id |-> 0, cash_balance |-> 0,
           positions |-> <<>>, quotes |-> <<>>, payload |-> <<>>,
           resp |-> "", views |-> 0]

RecIdle == [pc |-> "idle", users |-> <<>>, i |-> 0, cash_balance |-> 0,
            pending |-> <<>>, count |-> 0, aborted |-> FALSE,
            failed |-> {}, resp |-> "", runs |-> 0]

(* ---------------------------- POST /buy -------------------------------- *)
(* lines 85-94: parse, validate the quantity, fetch the quote *)
BuyStart(p, u, t, raw) ==
    /\ req[p].pc \in {"idle", "done"}
    /\ started < MaxOrders
    /\ started' = started + 1
    /\ LET r == [Idle EXCEPT !.op = "buy", !.user_id = u, !.ticker = t,
                             !.quantity = raw]
       IN  IF FLe(raw, 0)
           THEN req' = [req EXCEPT ![p] = Respond(r, "InvalidInput")]
           ELSE \E td \in get_ticker_info(t) :
                  req' = [req EXCEPT ![p] =
                     IF td = NoQuote
                     THEN Respond([r EXCEPT !.quoteCalls = 1], "QuoteUnavailable")
                     ELSE [r EXCEPT !.pc = "buy_select_account",
                                    !.price = td.price, !.quoteCalls = 1]]
    /\ UNCHANGED <<cash, positions, transactions, history, nextId, lock, committed>>
    /\ OrderFrame

(* lines 96-106: read the balance, reject or compute the new balance *)
BuySelectAccount(p) ==
    LET r == req[p]
        total_cost == FMul(r.price, r.quantity)
    IN  /\ r.pc = "buy_select_account"
        /\ req' = [req EXCEPT ![p] =
              IF r.user_id \notin DOMAIN cash
              THEN Respond(r, "UserNotFound")
              ELSE IF FLt(cash[r.user_id], total_cost)
              THEN Respond(r, "InsufficientFunds")
              ELSE [r EXCEPT !.pc = "buy_update_account",
                             !.new_cash_balance = FSub(cash[r.user_id], total_cost)]]
        /\ UNCHANGED <<cash, positions, transactions, history, nextId, lock,
                       committed, started>>
        /\ OrderFrame

(* line 107: UPDATE accounts, waits for and takes the row lock *)
BuyUpdateAccount(p) ==
    LET r == req[p]
    IN  /\ r.pc = "buy_update_account"
        /\ LockFree(p, r.user_id)
        /\ lock' = Locked(p, r.user_id)
        /\ req' = [req EXCEPT ![p] =
              [Buffered(r, UpdateCash(r.user_id, r.new_cash_balance))
                 EXCEPT !.pc = "buy_upsert_position"]]
        /\ UNCHANGED <<cash, positions, transactions, history, nextId,
                       committed, started>>
        /\ OrderFrame

(* variant: the plain mean of the old average and the new price *)
PositionWrite_Unweighted(position, u, t, quantity, price) ==
    IF position # NoRow
    THEN UpdatePosition(position.position_id,
                        FAdd(position.quantity, quantity),
                        FDiv(FAdd(position.average_buy_price, price), 2))
    ELSE InsertPosition(u, t, quantity, price)

(* variant: every buy inserts a row *)
PositionWrite_AlwaysInsert(position, u, t, quantity, price) ==
    InsertPosition(u, t, quantity, price)

(* lines 112-121: weighted average on an existing row, else a new row *)
PositionWrite(position, u, t, quantity, price) ==
    IF position # NoRow
    THEN LET old_quantity == position.quantity
             old_avg_price == position.average_buy_price
             new_quantity == FAdd(old_quantity, quantity)
             new_avg_price == FDiv(FAdd(FMul(old_avg_price, old_quantity),
                                        FMul(price, quantity)), new_quantity)
         IN  UpdatePosition(position.position_id, new_quantity, new_avg_price)
    ELSE InsertPosition(u, t, quantity, price)

(* lines 109-121: look the position up, then update or insert it *)
BuyUpsertPosition(p) ==
    LET r == req[p]
        position == FetchPosition(r.user_id, r.ticker)
    IN  /\ r.pc = "buy_upsert_position"
        /\ req' = [req EXCEPT ![p] =
              [Buffered(r, PositionWrite(position, r.user_id, r.ticker,
                                         r.quantity, r.price))
                 EXCEPT !.pc = "buy_insert_transaction", !.position = position]]
        /\ UNCHANGED <<cash, positions, transactions, history, nextId, lock,
                       committed, started>>
        /\ OrderFrame

(* lines 123-124 *)
BuyInsertTransaction(p) ==
    LET r == req[p]
    IN  /\ r.pc = "buy_insert_transaction"
        /\ req' = [req EXCEPT ![p] =
              [Buffered(r, InsertTransaction(r.user_id, r.ticker, "BUY",
                                             r.quantity, r.price))
                 EXCEPT !.pc = "buy_commit"]]
        /\ UNCHANGED <<cash, positions, transactions, history, nextId, lock,
                       committed, started>>
        /\ OrderFrame

(* lines 126-127 *)
BuyCommit(p) ==
    LET r == req[p]
    IN  /\ r.pc = "buy_commit"
        /\ Commit(r.pending)
        /\ lock' = Released(p)
        /\ committed' = committed + 1
        /\ req' = [req EXCEPT ![p] = Respond(r, "OK")]
        /\ UNCHANGED started
        /\ OrderFrame

(* ---------------------------- POST /sell ------------------------------- *)
(* variant: the quote is fetched before the position is looked up *)
SellStart_QuoteFirst(p, u, t, raw) ==
    /\ req[p].pc \in {"idle", "done"}
    /\ started < MaxOrders
    /\ started' = started + 1
    /\ LET r == [Idle EXCEPT !.op = "sell", !.user_id = u, !.ticker = t,
                             !.quantity = raw]
       IN  IF FLe(raw, 0)
           THEN req' = [req EXCEPT ![p] = Respond(r, "InvalidInput")]
           ELSE \E td \in get_ticker_info(t) :
                  req' = [req EXCEPT ![p] =
                     IF td = NoQuote
                     THEN Respond([r EXCEPT !.quoteCalls = 1], "QuoteUnavailable")
                     ELSE [r EXCEPT !.pc = "sell_select_position",
                                    !.quoteCalls = 1]]
    /\ UNCHANGED <<cash, positions, transactions, history, nextId, lock, committed>>
    /\ OrderFrame

(* lines 132-136 *)
SellStart(p, u, t, raw) ==
    /\ req[p].pc \in {"idle", "done"}
    /\ started < MaxOrders
    /\ started' = started + 1
    /\ LET r == [Idle EXCEPT !.op = "sell", !.user_id = u, !.ticker = t,
                             !.quantity = raw]
       IN  req' = [req EXCEPT ![p] =
              IF FLe(raw, 0) THEN Respond(r, "InvalidInput")
              ELSE [r EXCEPT !.pc = "sell_select_position"]]
    /\ UNCHANGED <<cash, positions, transactions, history, nextId, lock, committed>>
    /\ OrderFrame

(* variant: a sell of exactly the held quantity is refused too *)
NotEnoughShares_Strict(position, quantity_to_sell) ==
    position = NoRow \/ FLe(position.quantity, quantity_to_sell)

(* line 143: the held quantity does not cover the order *)
NotEnoughShares(position, quantity_to_sell) ==
    position = NoRow \/ FLt(position.quantity, quantity_to_sell)

(* lines 140-144 *)
SellSelectPosition(p) ==
    LET r == req[p]
        position == FetchPosition(r.user_id, r.ticker)
    IN  /\ r.pc = "sell_select_position"
        /\ req' = [req EXCEPT ![p] =
              IF NotEnoughShares(position, r.quantity)
              THEN Respond(r, "InsufficientShares")
              ELSE [r EXCEPT !.pc = "sell_quote", !.position = position]]
        /\ UNCHANGED <<cash, positions, transactions, history, nextId, lock,
                       committed, started>>
        /\ OrderFrame

(* lines 146-149 *)
SellQuote(p) ==
    LET r == req[p]
    IN  /\ r.pc = "sell_quote"
        /\ \E td \in get_ticker_info(r.ticker) :
              req' = [req EXCEPT ![p] =
                 IF td = NoQuote
                 THEN Respond([r EXCEPT !.quoteCalls = r.quoteCalls + 1],
                              "QuoteUnavailable")
                 ELSE [r EXCEPT !.pc = "sell_select_account",
                                !.price = td.price,
                                !.quoteCalls = r.quoteCalls + 1]]
        /\ UNCHANGED <<cash, positions, transactions, history, nextId, lock,
                       committed, started>>
        /\ OrderFrame

(* lines 151-156; account None raises TypeError on the subscript *)
SellSelectAccount(p) ==
    LET r == req[p]
        total_revenue == FMul(r.price, r.quantity)
    IN  /\ r.pc = "sell_select_account"
        /\ req' = [req EXCEPT ![p] =
              IF r.user_id \notin DOMAIN cash
              THEN Respond(r, "ServerError")
              ELSE [r EXCEPT !.pc = "sell_update_account",
                             !.new_cash_balance = FAdd(cash[r.user_id], total_revenue)]]
        /\ UNCHANGED <<cash, positions, transactions, history, nextId, lock,
                       committed, started>>
        /\ OrderFrame

(* line 157 *)
SellUpdateAccount(p) ==
    LET r == req[p]
    IN  /\ r.pc = "sell_update_account"
        /\ LockFree(p, r.user_id)
        /\ lock' = Locked(p, r.user_id)
        /\ req' = [req EXCEPT ![p] =
              [Buffered(r, UpdateCash(r.user_id, r.new_cash_balance))
                 EXCEPT !.pc = "sell_write_position"]]
        /\ UNCHANGED <<cash, positions, transactions, history, nextId,
                       committed, started>>
        /\ OrderFrame

(* variant: the decrement is taken from the row as it is now *)
SellWrite_Current(position, quantity_to_sell) ==
    LET now == SelectSeq(positions, LAMBDA x : x.position_id = position.position_id)
        held == IF now = <<>> THEN position.quantity ELSE Head(now).quantity
        new_quantity == FSub(held, quantity_to_sell)
    IN  IF FLe(new_quantity, Epsilon)
        THEN DeletePosition(position.position_id)
        ELSE UpdateQuantity(position.position_id, new_quantity)

(* lines 159-163: close the position at or below the tolerance *)
SellWrite(position, quantity_to_sell) ==
    LET new_quantity == FSub(position.quantity, quantity_to_sell)
    IN  IF FLe(new_quantity, Epsilon)
        THEN DeletePosition(position.position_id)
        ELSE UpdateQuantity(position.position_id, new_quantity)

SellWritePosition(p) ==
    LET r == req[p]
    IN  /\ r.pc = "sell_write_position"
        /\ req' = [req EXCEPT ![p] =
              [Buffered(r, SellWrite(r.position, r.quantity))
                 EXCEPT !.pc = "sell_insert_transaction"]]
        /\ UNCHANGED <<cash, positions, transactions, history, nextId, lock,
                       committed, started>>
        /\ OrderFrame

(* lines 165-166 *)
SellInsertTransaction(p) ==
    LET r == req[p]
    IN  /\ r.pc = "sell_insert_transaction"
        /\ req' = [req EXCEPT ![p] =
              [Buffered(r, InsertTransaction(r.user_id, r.ticker, "SELL",
                                             r.quantity, r.price))
                 EXCEPT !.pc = "sell_commit"]]
        /\ UNCHANGED <<cash, positions, transactions, history, nextId, lock,
                       committed, started>>
        /\ OrderFrame

(* lines 168-169 *)
SellCommit(p) ==
    LET r == req[p]
    IN  /\ r.pc = "sell_commit"
        /\ Commit(r.pending)
        /\ lock' = Released(p)
        /\ committed' = committed + 1
        /\ req' = [req EXCEPT ![p] = Respond(r, "OK")]
        /\ UNCHANGED started
        /\ OrderFrame

(* a store call raises inside the transaction (psycopg2 error): the       *)
(* handler dies with a 500, nothing was committed                          *)
InTransaction(r) ==
    r.pc \in {"buy_select_account", "buy_update_account", "buy_upsert_position",
              "buy_insert_transaction", "buy_commit",
              "sell_select_position", "sell_select_account",
              "sell_update_account", "sell_write_position",
              "sell_insert_transaction", "sell_commit"}

(* variant: an autocommit connection keeps what was written so far *)
StoreFailure_Autocommit(p) ==
    LET r == req[p]
    IN  /\ InTransaction(r)
        /\ req' = [req EXCEPT ![p] = Respond(r, "ServerError")]
        /\ lock' = Released(p)
        /\ Commit(r.pending)
        /\ UNCHANGED <<committed, started>>
        /\ OrderFrame

StoreFailure(p) ==
    LET r == req[p]
    IN  /\ InTransaction(r)
        /\ req' = [req EXCEPT ![p] = Respond(r, "ServerError")]
        /\ lock' = Released(p)
        /\ UNCHANGED <<cash, positions, transactions, history, nextId,
                       committed, started>>
        /\ OrderFrame

Order(p, U, T) ==
    \/ \E u \in U, t \in T, raw \in QuantityInputs : BuyStart(p, u, t, raw)
    \/ BuySelectAccount(p)
    \/ BuyUpdateAccount(p)
    \/ BuyUpsertPosition(p)
    \/ BuyInsertTransaction(p)
    \/ BuyCommit(p)
    \/ \E u \in U, t \in T, raw \in QuantityInputs : SellStart(p, u, t, raw)
    \/ SellSelectPosition(p)
    \/ SellQuote(p)
    \/ SellSelectAccount(p)
    \/ SellUpdateAccount(p)
    \/ SellWritePosition(p)
    \/ SellInsertTransaction(p)
    \/ SellCommit(p)
    \/ StoreFailure(p)

(* ---------------------------- GET /portfolio --------------------------- *)
(* line 214: ticker.endswith('-USD') *)
IsCrypto(t) == t = "BTC-USD"

(* lines 190-229: one pass of the valuation loop *)
DetailedPosition(pos, ticker_data) ==
    LET ticker == pos.ticker_symbol
        quantity == pos.quantity
        avg_buy_price == pos.average_buy_price
        position_investment_cost == FMul(avg_buy_price, quantity)
        current_price == IF ticker_data # NoQuote THEN ticker_data.price ELSE 0
        day_change_pct == IF ticker_data # NoQuote THEN ticker_data.change_pct ELSE 0
        name == IF ticker_data # NoQuote THEN ticker_data.name ELSE ticker
        position_value == FMul(current_price, quantity)
        unrealized_pnl == FMul(FSub(current_price, avg_buy_price), quantity)
        unrealized_pnl_pct == IF FGt(position_investment_cost, 0)
                              THEN FDiv(unrealized_pnl, position_investment_cost)
                              ELSE 0
    IN  [ticker |-> ticker, name |-> name, quantity |-> quantity,
         average_buy_price |-> avg_buy_price, current_price |-> current_price,
         current_value |-> position_value, unrealized_pnl |-> unrealized_pnl,
         unrealized_pnl_pct |-> unrealized_pnl_pct,
         day_change_pct |-> day_change_pct]

(* lines 184-229: the loop, accumulating the totals in read order *)
RECURSIVE ValueLoop(_, _, _, _)
ValueLoop(rows, quotes, i, acc) ==
    IF i > Len(rows) THEN acc
    ELSE LET d == DetailedPosition(rows[i], quotes[i])
             cost == FMul(rows[i].average_buy_price, rows[i].quantity)
         IN  ValueLoop(rows, quotes, i + 1,
               [total_value_stocks |->
                   IF IsCrypto(d.ticker) THEN acc.total_value_stocks
                   ELSE FAdd(acc.total_value_stocks, d.current_value),
                total_value_crypto |->
                   IF IsCrypto(d.ticker)
                   THEN FAdd(acc.total_value_crypto, d.current_value)
                   ELSE acc.total_value_crypto,
                total_investment_cost |-> FAdd(acc.total_investment_cost, cost),
                detailed_positions |-> Append(acc.detailed_positions, d)])

(* lines 184-248 *)
PortfolioPayload(user_id, cash_balance, rows, quotes) ==
    LET acc == ValueLoop(rows, quotes, 1,
                 [total_value_stocks |-> 0, total_value_crypto |-> 0,
                  total_investment_cost |-> 0, detailed_positions |-> <<>>])
        total_asset_value == FAdd(acc.total_value_stocks, acc.total_value_crypto)
        total_portfolio_value == FAdd(total_asset_value, cash_balance)
        overall_pnl_pct ==
            IF FGt(acc.total_investment_cost, 0)
            THEN FDiv(FSub(total_asset_value, acc.total_investment_cost),
                      acc.total_investment_cost)
            ELSE 0
    IN  [user_id |-> user_id, cash_balance |-> cash_balance,
         total_asset_value |-> total_asset_value,
         total_value_stocks |-> acc.total_value_stocks,
         total_value_crypto |-> acc.total_value_crypto,
         total_portfolio_value |-> total_portfolio_value,
         overall_pnl_pct |-> overall_pnl_pct,
         positions |-> acc.detailed_positions]

ViewFrame == UNCHANGED <<cash, positions, transactions, history, nextId, lock,
                         req, committed, started, rec>>

(* lines 173-179 *)
PortfolioSelectAccount(u) ==
    /\ pf.pc \in {"idle", "done"}
    /\ pf.views < MaxViews
    /\ pf' = IF u \notin DOMAIN cash
             THEN [PfIdle EXCEPT !.pc = "done", !.user_id = u,
                                 !.resp = "UserNotFound",
                                 !.views = pf.views + 1]
             ELSE [PfIdle EXCEPT !.pc = "pf_select_positions", !.user_id = u,
                                 !.cash_balance = cash[u],
                                 !.views = pf.views + 1]
    /\ ViewFrame

(* lines 181-182 *)
PortfolioSelectPositions ==
    /\ pf.pc = "pf_select_positions"
    /\ pf' = [pf EXCEPT !.pc = "pf_value",
                        !.positions = ListPositions(pf.user_id)]
    /\ ViewFrame

(* lines 184-248: one quote per position, then the payload *)
PortfolioValue ==
    /\ pf.pc = "pf_value"
    /\ \E quotes \in [1..Len(pf.positions) -> {NoQuote} \cup UNION {get_ticker_info(t) : t \in Tickers}] :
          /\ \A i \in 1..Len(pf.positions) :
                quotes[i] \in get_ticker_info(pf.positions[i].ticker_symbol)
          /\ pf' = [pf EXCEPT !.pc = "done", !.resp = "OK", !.quotes = quotes,
                              !.payload = PortfolioPayload(pf.user_id,
                                             pf.cash_balance, pf.positions, quotes)]
    /\ ViewFrame

Portfolio(U) ==
    \/ \E u \in U : PortfolioSelectAccount(u)
    \/ PortfolioSelectPositions
    \/ PortfolioValue

(* ---------------------------- POST /api/record-history ----------------- *)
RECURSIVE SetToSeq(_)
SetToSeq(S) ==
    IF S = {} THEN <<>>
    ELSE LET m == CHOOSE x \in S : \A y \in S : x <= y
         IN  <<m>> \o SetToSeq(S \ {m})

(* lines 335-342: positions without a numeric quote add nothing *)
RECURSIVE SnapshotAssets(_, _, _)
SnapshotAssets(rows, quotes, i) ==
    IF i > Len(rows) THEN 0
    ELSE LET rest == SnapshotAssets(rows, quotes, i + 1)
         IN  IF quotes[i] # NoQuote
             THEN FAdd(FMul(quotes[i].price, rows[i].quantity), rest)
             ELSE rest

RecFrame == UNCHANGED <<cash, positions, transactions, history, nextId, lock,
                        req, committed, started, pf>>

(* lines 309-322: the bearer check, then SELECT DISTINCT user_id *)
RecordStart(authorized) ==
    /\ rec.pc \in {"idle", "done"}
    /\ rec.runs < MaxRuns
    /\ rec' = IF ~authorized
              THEN [RecIdle EXCEPT !.pc = "done", !.resp = "Unauthorized",
                                   !.runs = rec.runs + 1]
              ELSE [RecIdle EXCEPT !.pc = "rec_select_account",
                                   !.users = SetToSeq(DOMAIN cash), !.i = 1,
                                   !.runs = rec.runs + 1]
    /\ RecFrame

(* line 323 and line 356: next user, or leave the loop *)
NextUser(r) ==
    [r EXCEPT !.i = r.i + 1,
              !.pc = IF r.i + 1 > Len(r.users) THEN "rec_commit"
                     ELSE "rec_select_account"]

(* lines 353-354: the except arm.  A statement that raised leaves the      *)
(* PostgreSQL transaction aborted: every later statement of the           *)
(* connection raises InFailedSqlTransaction.                               *)
Caught(r, own) ==
    NextUser([r EXCEPT !.aborted = TRUE,
                       !.failed = IF own THEN r.failed \cup {r.users[r.i]}
                                  ELSE r.failed])

(* lines 328-330 *)
RecordSelectAccount(fails) ==
    LET u == rec.users[rec.i]
    IN  /\ rec.pc = "rec_select_account"
        /\ rec' = IF rec.aborted THEN Caught(rec, FALSE)
                  ELSE IF fails THEN Caught(rec, TRUE)
                  ELSE [rec EXCEPT !.pc = "rec_value",
                                   !.cash_balance = IF u \in DOMAIN cash
                                                    THEN cash[u] ELSE 0]
        /\ RecFrame

(* lines 332-351 *)
RecordValue(fails) ==
    LET u == rec.users[rec.i]
        rows == ListPositions(u)
    IN  /\ rec.pc = "rec_value"
        /\ IF fails
           THEN rec' = Caught(rec, TRUE)
           ELSE \E quotes \in [1..Len(rows) -> {NoQuote} \cup UNION {get_ticker_info(t) : t \in Tickers}] :
                  /\ \A i \in 1..Len(rows) :
                        quotes[i] \in get_ticker_info(rows[i].ticker_symbol)
                  /\ LET total_asset_value == SnapshotAssets(rows, quotes, 1)
                         total_portfolio_value == FAdd(rec.cash_balance, total_asset_value)
                     IN  rec' = NextUser([rec EXCEPT
                                   !.pending = Append(rec.pending,
                                        InsertHistory(u, total_portfolio_value)),
                                   !.count = rec.count + 1])
        /\ RecFrame

(* lines 356-359: COMMIT of an aborted transaction is a ROLLBACK *)
RecordCommit ==
    /\ rec.pc = "rec_commit"
    /\ Commit(IF rec.aborted THEN <<>> ELSE rec.pending)
    /\ rec' = [rec EXCEPT !.pc = "done", !.resp = "OK", !.pending = <<>>]
    /\ UNCHANGED <<lock, req, committed, started, pf>>

Recorder ==
    \/ \E authorized \in BOOLEAN : RecordStart(authorized)
    \/ \E fails \in BOOLEAN : RecordSelectAccount(fails)
    \/ \E fails \in BOOLEAN : RecordValue(fails)
    \/ RecordCommit

(* ---------------------------- specifications --------------------------- *)
Init ==
    /\ cash = [a \in Accounts |-> StartCash]
    /\ positions = <<>>
    /\ transactions = <<>>
    /\ history = <<>>
    /\ nextId = 1
    /\ lock = [a \in Accounts |-> 0]
    /\ req = [p \in Procs |-> Idle]
    /\ committed = 0
    /\ started = 0
    /\ pf = PfIdle
    /\ rec = RecIdle

(* requests one after another *)
NextSerial == Order(1, {1, 3}, Tickers)

SpecSerial == Init /\ [][NextSerial]_vars

(* requests of two connections interleaved statement by statement *)
Next == \E p \in Procs : Order(p, {1, 3}, {"AAA"})

Spec == Init /\ [][Next]_vars

(* orders of one connection, valuations of another *)
NextValuation == Order(1, {1}, Tickers) \/ Portfolio({1, 3})

SpecValuation == Init /\ [][NextValuation]_vars

(* orders of one connection, the scheduled recorder on another *)
NextHistory == Order(1, Accounts, {"AAA"}) \/ Recorder

SpecHistory == Init /\ [][NextHistory]_vars

(* ---------------------------- properties ------------------------------- *)
TxOf(u, t, ty) ==
    SelectSeq(transactions, LAMBDA x : x.user_id = u /\ x.ticker_symbol = t
                                       /\ x.transaction_type = ty)

RECURSIVE SumCost(_)
SumCost(txs) ==
    IF txs = <<>> THEN 0
    ELSE FAdd(FMul(Head(txs).price_per_share, Head(txs).quantity), SumCost(Tail(txs)))

RECURSIVE SumQuantity(_)
SumQuantity(txs) ==
    IF txs = <<>> THEN 0 ELSE FAdd(Head(txs).quantity, SumQuantity(Tail(txs)))

(* the running weighted average of a non-empty list of buys, replayed in order *)
RECURSIVE Replay(_, _, _)
Replay(txs, qty, avg) ==
    IF txs = <<>> THEN [quantity |-> qty, average_buy_price |-> avg]
    ELSE LET x == Head(txs)
             nq == FAdd(qty, x.quantity)
         IN  Replay(Tail(txs), nq,
                    FDiv(FAdd(FMul(avg, qty), FMul(x.price_per_share, x.quantity)), nq))

OnlyBought(row) ==
    /\ TxOf(row.user_id, row.ticker_symbol, "SELL") = <<>>
    /\ TxOf(row.user_id, row.ticker_symbol, "BUY") # <<>>

Rows == {positions[i] : i \in 1..Len(positions)}

(* C1: after every committed order the cash balance of every account is   *)
(* at least zero.                                                          *)
C1_CashNeverNegative == \A a \in Accounts : FGe(cash[a], 0)

(* C2 as stated: with no sell of the symbol, average_buy_price is the sum  *)
(* of price*quantity over the recorded BUY transactions divided by the sum *)
(* of their quantities.                                                    *)
C2_AverageIsTotalCostOverQuantity ==
    \A row \in Rows :
       OnlyBought(row) =>
          LET buys == TxOf(row.user_id, row.ticker_symbol, "BUY")
          IN  ~IsNaN(SumQuantity(buys)) =>
                 row.average_buy_price = FDiv(SumCost(buys), SumQuantity(buys))

(* C2 amended: with no sell of the symbol, the position holds the total    *)
(* bought quantity and the running weighted average of its BUY             *)
(* transactions replayed in order (first buy: price p1; each next buy:     *)
(* (avg*Q + p*q)/(Q+q)); after one or two buys that is                     *)
(* (p1*q1 + p2*q2)/(q1+q2).                                                *)
C2_WeightedAverage ==
    \A row \in Rows :
       OnlyBought(row) =>
          LET buys == TxOf(row.user_id, row.ticker_symbol, "BUY")
              first == Head(buys)
              run == Replay(Tail(buys), first.quantity, first.price_per_share)
          IN  /\ row.quantity = SumQuantity(buys)
              /\ row.quantity = run.quantity
              /\ row.average_buy_price = run.average_buy_price
              /\ Len(buys) = 1 => row.average_buy_price = first.price_per_share
              /\ Len(buys) = 2 =>
                    row.average_buy_price = FDiv(SumCost(buys), SumQuantity(buys))

C2_Witness ==
    \E row \in Rows :
       /\ OnlyBought(row)
       /\ LET buys == TxOf(row.user_id, row.ticker_symbol, "BUY")
          IN  /\ Len(buys) = 3
              /\ ~IsNaN(row.average_buy_price)
              /\ row.average_buy_price # FDiv(SumCost(buys), SumQuantity(buys))

(* the step in which connection p answers the position lookup of a sell *)
SellChecked(p) ==
    /\ req[p].pc = "sell_select_position"
    /\ req'[p].pc # "sell_select_position"
    /\ req'[p].resp # "ServerError"

(* C3: a sell of more than the held quantity, or of a symbol without a     *)
(* position, is rejected with InsufficientShares and changes neither cash  *)
(* nor positions nor the transaction log; a sell of exactly the held       *)
(* quantity passes the check.                                              *)
C3_OversellRejected ==
    [][\A p \in Procs :
         SellChecked(p) =>
            LET r == req[p]
                held == FetchPosition(r.user_id, r.ticker)
            IN  /\ (held = NoRow \/ FGt(r.quantity, held.quantity)) =>
                      /\ req'[p].pc = "done"
                      /\ req'[p].resp = "InsufficientShares"
                      /\ store' = store
                /\ (held # NoRow /\ r.quantity = held.quantity) =>
                      /\ req'[p].pc = "sell_quote"
                      /\ req'[p].position = held]_vars

C3_Witness ==
    \E p \in Procs :
       /\ req[p].pc = "done" /\ req[p].op = "sell"
       /\ req[p].resp = "InsufficientShares"
       /\ FetchPosition(req[p].user_id, req[p].ticker) # NoRow
       /\ FGt(req[p].quantity, FetchPosition(req[p].user_id, req[p].ticker).quantity)
       /\ \E q \in Procs :
             /\ req[q].pc = "sell_quote"
             /\ req[q].quantity = req[q].position.quantity

(* C4: every Position row has a quantity above zero.                       *)
C4_QuantityPositive == \A row \in Rows : FGt(row.quantity, 0)

(* the tables after connection p's buffered order has been applied *)
AfterOrder(p) ==
    LET r == req[p]
        id == r.position.position_id
        left == FSub(r.position.quantity, r.quantity)
    IN  [cash |-> [cash EXCEPT ![r.user_id] = r.new_cash_balance],
         transactions |-> Append(transactions,
              [user_id |-> r.user_id, ticker_symbol |-> r.ticker,
               transaction_type |-> IF r.op = "buy" THEN "BUY" ELSE "SELL",
               quantity |-> r.quantity, price_per_share |-> r.price]),
         positions |->
            IF r.op = "buy" /\ r.position = NoRow
            THEN Append(positions,
                   [position_id |-> nextId, user_id |-> r.user_id,
                    ticker_symbol |-> r.ticker, quantity |-> r.quantity,
                    average_buy_price |-> r.price])
            ELSE IF r.op = "buy"
            THEN [i \in 1..Len(positions) |->
                    IF positions[i].position_id = id
                    THEN [positions[i] EXCEPT
                            !.quantity = FAdd(r.position.quantity, r.quantity),
                            !.average_buy_price =
                               FDiv(FAdd(FMul(r.position.average_buy_price,
                                              r.position.quantity),
                                         FMul(r.price, r.quantity)),
                                    FAdd(r.position.quantity, r.quantity))]
                    ELSE positions[i]]
            ELSE IF FLe(left, Epsilon)
            THEN SelectSeq(positions, LAMBDA x : x.position_id # id)
            ELSE [i \in 1..Len(positions) |->
                    IF positions[i].position_id = id
                    THEN [positions[i] EXCEPT !.quantity = left]
                    ELSE positions[i]]]

Commits(p) ==
    /\ req[p].pc \in {"buy_commit", "sell_commit"}
    /\ req'[p].pc = "done"
    /\ req'[p].resp = "OK"

(* C5: a step either leaves accounts, positions and transactions as they   *)
(* are, or it is the commit of one order and shows its cash update, its    *)
(* position write and exactly one appended transaction together; the log   *)
(* has one row per committed order.                                        *)
C5_AllOrNothing ==
    /\ [](Len(transactions) = committed)
    /\ [][\/ store' = store /\ committed' = committed
          \/ \E p \in Procs :
                /\ Commits(p)
                /\ committed' = committed + 1
                /\ cash' = AfterOrder(p).cash
                /\ positions' = AfterOrder(p).positions
                /\ transactions' = AfterOrder(p).transactions]_vars

C5_Witness ==
    /\ committed >= 1
    /\ Len(transactions) = committed
    /\ \E p \in Procs :
          /\ req[p].pc = "done" /\ req[p].resp = "ServerError"
          /\ \E q \in Procs :
                /\ req[q].pc = "sell_commit"
                /\ Len(req[q].pending) = 3
                /\ cash[req[q].user_id] # req[q].new_cash_balance

(* C6: at most one Position row per user and ticker symbol.                *)
C6_OnePositionPerSymbol ==
    \A u \in UserIds, t \in Tickers : Len(PositionsOf(u, t)) <= 1

C6_Witness ==
    \E p \in Procs, q \in Procs :
       /\ p # q
       /\ req[p].pc = "buy_upsert_position"
       /\ req[q].pc = "buy_update_account"
       /\ req[p].user_id = req[q].user_id
       /\ req[p].ticker = req[q].ticker
       /\ FetchPosition(req[p].user_id, req[p].ticker) = NoRow

(* the asset value of the positions whose quote was resolved *)
RECURSIVE ResolvedValue(_, _, _)
ResolvedValue(rows, quotes, i) ==
    IF i > Len(rows) THEN 0
    ELSE IF quotes[i] = NoQuote THEN ResolvedValue(rows, quotes, i + 1)
    ELSE FAdd(FMul(quotes[i].price, rows[i].quantity),
              ResolvedValue(rows, quotes, i + 1))

(* C7: a valuation fails with UserNotFound only for an unknown account;    *)
(* otherwise the payload has one entry per position in read order, an      *)
(* entry without a quote has current_price, day_change_pct and             *)
(* current_value 0 and its ticker as name, and adds nothing to the asset   *)
(* total.                                                                  *)
C7_DegradedValuation ==
    pf.pc = "done" =>
       /\ pf.resp = "UserNotFound" <=> pf.user_id \notin Accounts
       /\ pf.resp = "OK" =>
             /\ Len(pf.payload.positions) = Len(pf.positions)
             /\ \A i \in 1..Len(pf.positions) :
                   LET e == pf.payload.positions[i]
                   IN  /\ e.ticker = pf.positions[i].ticker_symbol
                       /\ pf.quotes[i] = NoQuote =>
                             /\ e.current_price = 0
                             /\ e.day_change_pct = 0
                             /\ e.current_value = 0
                             /\ e.name = e.ticker
             /\ pf.payload.total_asset_value =
                   ResolvedValue(pf.positions, pf.quotes, 1)

HistoryOf(u) == SelectSeq(history, LAMBDA h : h.user_id = u)

(* C8: a finished authorized run has written one snapshot row for every    *)
(* user whose own valuation and insert did not fail.                       *)
C8_FailureIsolated ==
    (rec.pc = "done" /\ rec.resp = "OK") =>
       \A u \in Accounts \ rec.failed : Len(HistoryOf(u)) = rec.runs

SellCommits(p) == Commits(p) /\ req[p].op = "sell"

(* C9: nothing re-checks a sell after its quantity check: its commit       *)
(* credits the full price*quantity and writes the quantity it read minus   *)
(* the quantity sold (or deletes the row), whatever the row holds by then. *)
C9_SellWritesFromItsOwnRead ==
    [][\A p \in Procs :
         SellCommits(p) =>
            /\ ~NotEnoughShares(req[p].position, req[p].quantity)
            /\ transactions' = AfterOrder(p).transactions
            /\ cash' = AfterOrder(p).cash
            /\ positions' = AfterOrder(p).positions]_vars

(* two sells of one position both committed, together more than was bought *)
C9_Witness ==
    \E u \in Accounts, t \in Tickers :
       /\ Len(TxOf(u, t, "SELL")) = 2
       /\ Len(TxOf(u, t, "BUY")) = 1
       /\ FGt(SumQuantity(TxOf(u, t, "SELL")), SumQuantity(TxOf(u, t, "BUY")))

(* C10: a sell rejected for insufficient shares has not called the quote   *)
(* gateway, and a sell answers QuoteUnavailable only from the quote step   *)
(* that follows a passed quantity check, leaving the tables unchanged.     *)
C10_CheckBeforeQuote ==
    [][\A p \in Procs :
         /\ (req'[p].op = "sell" /\ req'[p].resp = "InsufficientShares") =>
               req'[p].quoteCalls = 0
         /\ (req'[p] # req[p] /\ req'[p].op = "sell"
                /\ req'[p].resp = "QuoteUnavailable") =>
               /\ req[p].pc = "sell_quote"
               /\ ~NotEnoughShares(req[p].position, req[p].quantity)
               /\ req'[p].quoteCalls = 1
               /\ store' = store]_vars

C10_Witness ==
    \E p \in Procs, q \in Procs :
       /\ req[p].op = "sell" /\ req[p].resp = "InsufficientShares"
       /\ req[p].quoteCalls = 0
       /\ req[q].op = "sell" /\ req[q].resp = "QuoteUnavailable"
       /\ req[q].quoteCalls = 1
       /\ FetchPosition(req[q].user_id, req[q].ticker) # NoRow

====
